---- MODULE Spec2Model ----
(***************************************************************************)
(* State-machine model of convert_to_webp.py: a sequential batch script    *)
(* that converts the images of the current directory to WebP in            *)
(* webp_output/, through the external tools exiftool, sips and cwebp.      *)
(*                                                                         *)
(* One action per statement that calls an external tool or ends a job.     *)
(* The outcome of every external call is chosen by the environment:        *)
(*   "ok"        exit status 0                                             *)
(*   "nonzero"   non-zero exit status (subprocess.CalledProcessError)      *)
(*   "notfound"  the executable is not on PATH (FileNotFoundError)         *)
(*   "oserror"   the executable cannot be launched for another reason, for *)
(*               instance without the execute bit (PermissionError, an     *)
(*               OSError that is not FileNotFoundError)                    *)
(* A tool that exits with status 0 has written its destination file; a     *)
(* sips or cwebp that exits non-zero may or may not have left a file at    *)
(* its destination; a tool that was not launched has written nothing.      *)
(* copy_metadata catches only CalledProcessError: an exiftool that cannot  *)
(* be launched at one of its two copies raises FileNotFoundError through   *)
(* copy_metadata (and convert_heic_to_jpeg) to line 159 of the main loop.  *)
(* check_exiftool catches CalledProcessError and FileNotFoundError only:   *)
(* another OSError of the probe ends the process at line 96 and reaches    *)
(* line 159 from line 72.  Line 116 is outside the try of line 118: an     *)
(* OSError of Path.exists() (line 86) ends the process.  Path.glob (line    *)
(* 107) raises nothing when the input directory cannot be listed: it       *)
(* yields no path.                                                         *)
(* Every print can raise an OSError when the write to the console fails    *)
(* (terminal gone, reader of the pipe gone, device full).  A print inside  *)
(* the try of line 118, or in a function called from there, is caught at   *)
(* line 159 unless a nearer handler takes it; a print outside every try    *)
(* (lines 98-102, 109, 162-165) or inside a handler of the main loop       *)
(* (lines 152-158, 160) ends the process.                                  *)
(* File names and paths are strings, handled as pathlib and str() do.      *)
(***************************************************************************)
EXTENDS Integers, Sequences, FiniteSets, TLC

VARIABLES
    pc,                     \* position of the script
    input_files,            \* names of the files directly inside input_dir
    pre_files,              \* paths present in output_dir before the run
    files,                  \* paths present in output_dir now
    has_exiftool,           \* line 96
    image_files,            \* line 105-107
    idx,                    \* position of the for loop of line 115 (1-based)
    output_path,            \* line 116
    temp_jpg,               \* line 122
    ret,                    \* caller of the running copy_metadata: "heic" or "main"
    successful_conversions, \* line 112
    metadata_preserved,     \* line 113
    calls,                  \* external commands run for the current job, in order
    probes,                 \* number of runs of check_exiftool so far
    jobs                    \* one record per job that has ended, in order

vars == <<pc, input_files, pre_files, files, has_exiftool, image_files, idx,
          output_path, temp_jpg, ret, successful_conversions,
          metadata_preserved, calls, probes, jobs>>

(***************************************************************************)
(* Bounds of the model.                                                    *)
(***************************************************************************)
MaxFiles == 2

InputNames == {"a.jpeg", "a.JPEG", "a.Jpeg", "a.heic", "a_1.HEIC"}

PreNames == {"webp_output/a_1.webp", "webp_output/a_temp.jpg"}

\* the output directory before the run: empty, or holding an earlier output
\* and an earlier intermediate file
PreSets == {{}, PreNames}

(***************************************************************************)
(* Configuration, lines 9-12.                                              *)
(***************************************************************************)
output_dir == "webp_output"

quality == 80

formats == <<".jpg", ".jpeg", ".png", ".heic", ".HEIC", ".JPG", ".JPEG", ".PNG">>

Outcomes == {"ok", "nonzero", "notfound", "oserror"}

\* the outcomes in which subprocess.run raises an OSError
LaunchErrors == {"notfound", "oserror"}

(***************************************************************************)
(* Strings.                                                                *)
(***************************************************************************)
Max(S) == CHOOSE m \in S : \A n \in S : n <= m

CharAt(s, i) == SubSeq(s, i, i)

EndsWith(s, suf) ==
    /\ Len(s) >= Len(suf)
    /\ SubSeq(s, Len(s) - Len(suf) + 1, Len(s)) = suf

\* str.rfind("."), 1-based; 0 when there is no dot
RFindDot(s) ==
    LET D == {i \in 1..Len(s) : CharAt(s, i) = "."}
    IN  IF D = {} THEN 0 ELSE Max(D)

\* pathlib: PurePath.suffix
Suffix(name) ==
    LET j == RFindDot(name)
    IN  IF 1 < j /\ j < Len(name) THEN SubSeq(name, j, Len(name)) ELSE ""

\* pathlib: PurePath.stem
Stem(name) ==
    LET j == RFindDot(name)
    IN  IF 1 < j /\ j < Len(name) THEN SubSeq(name, 1, j - 1) ELSE name

\* str.lower() on one ASCII character
LowerChar(c) ==
    CASE c = "A" -> "a" [] c = "B" -> "b" [] c = "C" -> "c" [] c = "D" -> "d"
      [] c = "E" -> "e" [] c = "F" -> "f" [] c = "G" -> "g" [] c = "H" -> "h"
      [] c = "I" -> "i" [] c = "J" -> "j" [] c = "K" -> "k" [] c = "L" -> "l"
      [] c = "M" -> "m" [] c = "N" -> "n" [] c = "O" -> "o" [] c = "P" -> "p"
      [] c = "Q" -> "q" [] c = "R" -> "r" [] c = "S" -> "s" [] c = "T" -> "t"
      [] c = "U" -> "u" [] c = "V" -> "v" [] c = "W" -> "w" [] c = "X" -> "x"
      [] c = "Y" -> "y" [] c = "Z" -> "z"
      [] OTHER -> c

RECURSIVE Lower(_)
\* str.lower()
Lower(s) ==
    IF Len(s) = 0 THEN ""
    ELSE LowerChar(CharAt(s, 1)) \o Lower(SubSeq(s, 2, Len(s)))

\* str(Path(dir) / name)
JoinPath(dir, name) == dir \o "/" \o name

(***************************************************************************)
(* check_exiftool, lines 14-20: the result of running "exiftool -ver".     *)
(***************************************************************************)
check_exiftool(outcome) == outcome = "ok"

\* line 19 catches CalledProcessError and FileNotFoundError; any other OSError
\* of line 17 leaves check_exiftool
check_exiftool_raises(outcome) == outcome = "oserror"

(***************************************************************************)
(* get_unique_output_path, lines 81-90.                                    *)
(***************************************************************************)
RECURSIVE UniqueLoop(_, _, _, _)
\* the while loop of lines 86-88
UniqueLoop(stem, path, counter, disk) ==
    IF path \in disk
    THEN UniqueLoop(stem, JoinPath(output_dir, stem \o "_" \o ToString(counter) \o ".webp"),
                    counter + 1, disk)
    ELSE path

\* variant: the existence test of line 86 is missing
get_unique_output_path_NoLoop(base_path, disk) ==
    JoinPath(output_dir, Stem(base_path) \o ".webp")

\* variant: the numbering starts at 2
get_unique_output_path_FromTwo(base_path, disk) ==
    UniqueLoop(Stem(base_path), JoinPath(output_dir, Stem(base_path) \o ".webp"), 2, disk)

get_unique_output_path(base_path, disk) ==
    UniqueLoop(Stem(base_path), JoinPath(output_dir, Stem(base_path) \o ".webp"), 1, disk)

(***************************************************************************)
(* Discovery, lines 104-107: one glob per format, in the order of formats. *)
(***************************************************************************)
GlobMatch(name, fmt) == EndsWith(name, fmt)

\* the enumeration orders of a directory
Orders(S) ==
    {s \in [1..Cardinality(S) -> S] : \A i, j \in 1..Cardinality(S) : s[i] = s[j] => i = j}

RECURSIVE Discover(_, _)
Discover(order, k) ==
    IF k > Len(formats) THEN <<>>
    ELSE SelectSeq(order, LAMBDA n : GlobMatch(n, formats[k])) \o Discover(order, k + 1)

\* line 120: img_path.suffix.lower() == '.heic'
IsHeicPath(path) == Lower(Suffix(path)) = ".heic"

\* IsHeicPath of every file name of the model, computed once
HeicTable == [n \in InputNames |-> IsHeicPath(n)]

IsHeic(path) == HeicTable[path]

(***************************************************************************)
(* Command lines of the external tools.                                    *)
(***************************************************************************)
ProbeCmd == <<"exiftool", "-ver">>

SipsCmd(heic_path, jpeg_path) ==
    <<"sips", "-s", "format", "jpeg", heic_path, "--out", jpeg_path>>

CwebpCmd(src, dst) ==
    <<"cwebp", "-q", ToString(quality), "-metadata", "all", src, "-o", dst>>

CopyAllCmd(src, dst) ==
    <<"exiftool", "-TagsFromFile", src, "-all:all", "-overwrite_original", dst>>

date_fields ==
    <<"-CreateDate", "-ModifyDate", "-DateTimeOriginal", "-FileCreateDate", "-FileModifyDate">>

CopyDatesCmd(src, dst) ==
    <<"exiftool", "-TagsFromFile", src>> \o date_fields \o <<"-overwrite_original", dst>>

Call(cmd, outcome) == [cmd |-> cmd, outcome |-> outcome]

(***************************************************************************)
(* The job in progress.                                                    *)
(***************************************************************************)
img_path == image_files[idx]

\* destination of the running copy_metadata
MetaDest == IF ret = "heic" THEN temp_jpg ELSE output_path

IsTool(c, tool) == c.cmd[1] = tool

\* record of a job that ends now with the given counters
JobRecord(sc, mp) ==
    [src |-> img_path, out |-> output_path, calls |-> calls,
     outExists |-> output_path \in files,
     tempExists |-> IsHeic(img_path) /\ temp_jpg \in files,
     sc |-> sc, mp |-> mp]

Init ==
    /\ pc = "makedirs"
    /\ input_files \in {S \in SUBSET InputNames : Cardinality(S) <= MaxFiles}
    /\ pre_files \in PreSets
    /\ files = pre_files
    /\ has_exiftool = FALSE
    /\ image_files = <<>>
    /\ idx = 1
    /\ output_path = ""
    /\ temp_jpg = ""
    /\ ret = "main"
    /\ successful_conversions = 0
    /\ metadata_preserved = 0
    /\ calls = <<>>
    /\ probes = 0
    /\ jobs = <<>>

\* line 93: os.makedirs(output_dir, exist_ok=True); an OSError ends the process
MakeDirs ==
    /\ pc = "makedirs"
    /\ \E ok \in BOOLEAN : pc' = IF ok THEN "probe" ELSE "crashed"
    /\ UNCHANGED <<input_files, pre_files, files, has_exiftool, image_files, idx,
                   output_path, temp_jpg, ret, successful_conversions,
                   metadata_preserved, calls, probes, jobs>>

\* lines 96-102; line 96 is outside every try, so an exception that leaves
\* check_exiftool ends the process, and so does a print of lines 98-102
StartupProbe ==
    /\ pc = "probe"
    /\ \E o \in Outcomes, print_raises \in BOOLEAN :
          CASE check_exiftool_raises(o) ->
                  pc' = "crashed" /\ has_exiftool' = has_exiftool
            [] ~check_exiftool_raises(o) /\ ~check_exiftool(o) /\ print_raises ->
                  pc' = "crashed" /\ has_exiftool' = FALSE
            [] OTHER ->
                  pc' = "discover" /\ has_exiftool' = check_exiftool(o)
    /\ probes' = probes + 1
    /\ UNCHANGED <<input_files, pre_files, files, image_files, idx, output_path,
                   temp_jpg, ret, successful_conversions, metadata_preserved,
                   calls, jobs>>

\* lines 104-113; Path.glob yields nothing for a directory that cannot be
\* listed, and the run goes on with no candidate; the print of line 109 is
\* outside every try
Discovery ==
    /\ pc = "discover"
    /\ \E listable \in BOOLEAN, order \in Orders(input_files) :
          image_files' = IF listable THEN Discover(order, 1) ELSE <<>>
    /\ successful_conversions' = 0
    /\ metadata_preserved' = 0
    /\ \E print_raises \in BOOLEAN : pc' = IF print_raises THEN "crashed" ELSE "loop"
    /\ UNCHANGED <<input_files, pre_files, files, has_exiftool, idx, output_path,
                   temp_jpg, ret, calls, probes, jobs>>

\* lines 115-123: the next candidate gets its output path and its route.
\* Line 116 is outside the try of line 118: when Path.exists() (line 86) raises
\* an OSError (output directory not searchable, name too long) the process ends.
\* The print of line 123 is inside the try: when it raises, line 159 catches it
Reserve ==
    /\ pc = "loop"
    /\ idx <= Len(image_files)
    /\ \E exists_raises \in BOOLEAN, print_raises \in BOOLEAN :
          IF exists_raises
          THEN /\ pc' = "crashed"
               /\ UNCHANGED <<output_path, calls, temp_jpg>>
          ELSE /\ output_path' = get_unique_output_path(img_path, files)
               /\ calls' = <<>>
               /\ IF IsHeic(img_path)
                  THEN /\ temp_jpg' = JoinPath(output_dir, Stem(img_path) \o "_temp.jpg")
                       /\ pc' = IF print_raises THEN "except_other" ELSE "sips"
                  ELSE /\ temp_jpg' = temp_jpg
                       /\ pc' = "cwebp"
    /\ UNCHANGED <<input_files, pre_files, files, has_exiftool, image_files, idx,
                   ret, successful_conversions, metadata_preserved, probes, jobs>>

\* line 69; lines 77-79 and 125-126 when sips exits non-zero; when sips cannot
\* be launched the OSError passes line 77 to line 159, and so does the OSError
\* of the print of line 78
Sips ==
    /\ pc = "sips"
    /\ \E o \in Outcomes, partial \in BOOLEAN :
          /\ partial => o = "nonzero"
          /\ calls' = Append(calls, Call(SipsCmd(img_path, temp_jpg), o))
          /\ files' = IF o = "ok" \/ partial THEN files \cup {temp_jpg} ELSE files
          /\ pc' = IF o = "ok" THEN "reprobe" ELSE "except_other"
    /\ UNCHANGED <<input_files, pre_files, has_exiftool, image_files, idx,
                   output_path, temp_jpg, ret, successful_conversions,
                   metadata_preserved, probes, jobs>>

\* lines 72-74: convert_heic_to_jpeg probes exiftool again; an exception that
\* leaves check_exiftool, or the print of line 73, passes line 77 and is
\* caught at line 159
HeicProbe ==
    /\ pc = "reprobe"
    /\ \E o \in Outcomes, print_raises \in BOOLEAN :
          /\ calls' = Append(calls, Call(ProbeCmd, o))
          /\ CASE check_exiftool_raises(o) -> pc' = "except_other" /\ ret' = ret
               [] check_exiftool(o) /\ print_raises -> pc' = "except_other" /\ ret' = ret
               [] check_exiftool(o) /\ ~print_raises -> pc' = "copy_all" /\ ret' = "heic"
               [] OTHER -> pc' = "cwebp" /\ ret' = ret
    /\ probes' = probes + 1
    /\ UNCHANGED <<input_files, pre_files, files, has_exiftool, image_files, idx,
                   output_path, temp_jpg, successful_conversions,
                   metadata_preserved, jobs>>

\* copy_metadata returns r to its caller: line 74 drops it, lines 143-147 count
\* it.  On the way lie the prints of line 62 (r false) and of lines 145 and 147
\* (caller of line 143); when one raises, line 159 catches it, line 144 done
CopyReturn(r) ==
    \E print_raises \in BOOLEAN :
        IF ret = "heic"
        THEN /\ pc' = IF ~r /\ print_raises THEN "except_other" ELSE "cwebp"
             /\ metadata_preserved' = metadata_preserved
        ELSE /\ pc' = IF print_raises THEN "except_other" ELSE "finish"
             /\ metadata_preserved' =
                   IF r THEN metadata_preserved + 1 ELSE metadata_preserved

\* variant: the date copy runs whatever exit status the all-tags copy had
CopyAll_NoStop ==
    /\ pc = "copy_all"
    /\ \E o \in Outcomes :
          /\ calls' = Append(calls, Call(CopyAllCmd(img_path, MetaDest), o))
          /\ pc' = IF o \in LaunchErrors THEN "except_other" ELSE "copy_dates"
    /\ UNCHANGED <<input_files, pre_files, files, has_exiftool, image_files, idx,
                   output_path, temp_jpg, ret, successful_conversions,
                   metadata_preserved, probes, jobs>>

\* lines 34-40; lines 61-63 when exiftool exits non-zero; when exiftool cannot
\* be launched the OSError passes line 61 (and line 77) to line 159
CopyAll ==
    /\ pc = "copy_all"
    /\ \E o \in Outcomes :
          /\ calls' = Append(calls, Call(CopyAllCmd(img_path, MetaDest), o))
          /\ CASE o = "ok" -> pc' = "copy_dates" /\ metadata_preserved' = metadata_preserved
               [] o = "nonzero" -> CopyReturn(FALSE)
               [] o \in LaunchErrors ->
                     pc' = "except_other" /\ metadata_preserved' = metadata_preserved
    /\ UNCHANGED <<input_files, pre_files, files, has_exiftool, image_files, idx,
                   output_path, temp_jpg, ret, successful_conversions, probes, jobs>>

\* lines 52-60; lines 61-63 when exiftool exits non-zero; when exiftool cannot
\* be launched the OSError passes line 61 (and line 77) to line 159
CopyDates ==
    /\ pc = "copy_dates"
    /\ \E o \in Outcomes :
          /\ calls' = Append(calls, Call(CopyDatesCmd(img_path, MetaDest), o))
          /\ IF o \in LaunchErrors
             THEN pc' = "except_other" /\ metadata_preserved' = metadata_preserved
             ELSE CopyReturn(o = "ok")
    /\ UNCHANGED <<input_files, pre_files, files, has_exiftool, image_files, idx,
                   output_path, temp_jpg, ret, successful_conversions, probes, jobs>>

\* variant: line 142 does not look at has_exiftool
MetadataGate_Always == pc' = "copy_all" /\ ret' = "main"

\* line 142: the metadata copy onto the output runs only if the startup probe succeeded
MetadataGate ==
    IF has_exiftool
    THEN pc' = "copy_all" /\ ret' = "main"
    ELSE pc' = "finish" /\ ret' = ret

\* variant: line 129 passes the source to cwebp, as line 137 does
Cwebp_ReadsSource ==
    /\ pc = "cwebp"
    /\ \/ /\ pc' = "except_other"
          /\ UNCHANGED <<calls, files, ret>>
       \/ \E o \in Outcomes, partial \in BOOLEAN :
             /\ partial => o = "nonzero"
             /\ calls' = Append(calls,
                   Call(CwebpCmd(img_path, output_path), o))
             /\ files' = IF o = "ok" \/ partial THEN files \cup {output_path} ELSE files
             /\ CASE o = "ok" /\ IsHeic(img_path) -> pc' = "unlink" /\ ret' = ret
                  [] o = "ok" /\ ~IsHeic(img_path) -> MetadataGate
                  [] o = "nonzero" -> pc' = "except_called" /\ ret' = ret
                  [] o \in LaunchErrors -> pc' = "except_other" /\ ret' = ret
    /\ UNCHANGED <<input_files, pre_files, has_exiftool, image_files, idx,
                   output_path, temp_jpg, successful_conversions,
                   metadata_preserved, probes, jobs>>

\* lines 129-131 (two-step) and 137-139 (direct); when the print of line 130
\* or 138 raises, cwebp is not called and line 159 catches the OSError
Cwebp ==
    /\ pc = "cwebp"
    /\ \/ /\ pc' = "except_other"
          /\ UNCHANGED <<calls, files, ret>>
       \/ \E o \in Outcomes, partial \in BOOLEAN :
             /\ partial => o = "nonzero"
             /\ calls' = Append(calls,
                   Call(CwebpCmd(IF IsHeic(img_path) THEN temp_jpg ELSE img_path, output_path), o))
             /\ files' = IF o = "ok" \/ partial THEN files \cup {output_path} ELSE files
             /\ CASE o = "ok" /\ IsHeic(img_path) -> pc' = "unlink" /\ ret' = ret
                  [] o = "ok" /\ ~IsHeic(img_path) -> MetadataGate
                  [] o = "nonzero" -> pc' = "except_called" /\ ret' = ret
                  [] o \in LaunchErrors -> pc' = "except_other" /\ ret' = ret
    /\ UNCHANGED <<input_files, pre_files, has_exiftool, image_files, idx,
                   output_path, temp_jpg, successful_conversions,
                   metadata_preserved, probes, jobs>>

\* line 134: temp_jpg.unlink() raises an OSError when the file is missing or
\* cannot be removed; the exception is caught at line 159
Unlink ==
    /\ pc = "unlink"
    /\ \E removed \in BOOLEAN :
          IF removed /\ temp_jpg \in files
          THEN files' = files \ {temp_jpg} /\ MetadataGate
          ELSE files' = files /\ pc' = "except_other" /\ ret' = ret
    /\ UNCHANGED <<input_files, pre_files, has_exiftool, image_files, idx,
                   output_path, temp_jpg, successful_conversions,
                   metadata_preserved, calls, probes, jobs>>

\* line 149, then the next iteration
Finish ==
    /\ pc = "finish"
    /\ successful_conversions' = successful_conversions + 1
    /\ jobs' = Append(jobs, JobRecord(successful_conversions + 1, metadata_preserved))
    /\ idx' = idx + 1
    /\ pc' = "loop"
    /\ UNCHANGED <<input_files, pre_files, files, has_exiftool, image_files,
                   output_path, temp_jpg, ret, metadata_preserved, calls, probes>>

\* lines 151-158, then the next iteration; a print that raises inside the
\* handler is caught by nothing and ends the process
ExceptCalledProcessError ==
    /\ pc = "except_called"
    /\ \E print_raises \in BOOLEAN :
          IF print_raises
          THEN pc' = "crashed" /\ UNCHANGED <<jobs, idx>>
          ELSE /\ jobs' = Append(jobs, JobRecord(successful_conversions, metadata_preserved))
               /\ idx' = idx + 1
               /\ pc' = "loop"
    /\ UNCHANGED <<input_files, pre_files, files, has_exiftool, image_files,
                   output_path, temp_jpg, ret, successful_conversions,
                   metadata_preserved, calls, probes>>

\* lines 159-160, then the next iteration; a print that raises inside the
\* handler is caught by nothing and ends the process
ExceptException ==
    /\ pc = "except_other"
    /\ \E print_raises \in BOOLEAN :
          IF print_raises
          THEN pc' = "crashed" /\ UNCHANGED <<jobs, idx>>
          ELSE /\ jobs' = Append(jobs, JobRecord(successful_conversions, metadata_preserved))
               /\ idx' = idx + 1
               /\ pc' = "loop"
    /\ UNCHANGED <<input_files, pre_files, files, has_exiftool, image_files,
                   output_path, temp_jpg, ret, successful_conversions,
                   metadata_preserved, calls, probes>>

\* lines 162-165, outside every try: a print that raises ends the process
Summary ==
    /\ pc = "loop"
    /\ idx > Len(image_files)
    /\ \E print_raises \in BOOLEAN : pc' = IF print_raises THEN "crashed" ELSE "done"
    /\ UNCHANGED <<input_files, pre_files, files, has_exiftool, image_files, idx,
                   output_path, temp_jpg, ret, successful_conversions,
                   metadata_preserved, calls, probes, jobs>>

Next ==
    \/ MakeDirs
    \/ StartupProbe
    \/ Discovery
    \/ Reserve
    \/ Sips
    \/ HeicProbe
    \/ CopyAll
    \/ CopyDates
    \/ Cwebp
    \/ Unlink
    \/ Finish
    \/ ExceptCalledProcessError
    \/ ExceptException
    \/ Summary

Spec == Init /\ [][Next]_vars

\* every external tool returns: the script's blocking calls have no other scheduler
FairSpec == Spec /\ WF_vars(Next)

TypeOK ==
    /\ pc \in {"makedirs", "crashed", "probe", "discover", "loop", "sips", "reprobe",
               "copy_all", "copy_dates", "cwebp", "unlink", "finish",
               "except_called", "except_other", "done"}
    /\ input_files \subseteq InputNames
    /\ has_exiftool \in BOOLEAN
    /\ ret \in {"heic", "main"}
    /\ successful_conversions \in Nat
    /\ metadata_preserved \in Nat
    /\ idx \in 1..(Len(image_files) + 1)

(***************************************************************************)
(* Vocabulary of the properties.                                           *)
(***************************************************************************)
JobIds == 1..Len(jobs)

\* no step changes a job record once it is written
JobsAppendOnly == [][\A i \in JobIds : i <= Len(jobs') /\ jobs'[i] = jobs[i]]_vars

\* the job whose record the last step wrote (each job ends with pc = "loop");
\* by JobsAppendOnly a property of one record holds of all records in all
\* states as soon as it holds of every record in the state that writes it
JustEnded == IF pc = "loop" /\ jobs # <<>> THEN {Len(jobs)} ELSE {}

\* a job has been reserved and has not ended
InJob ==
    pc \in {"sips", "reprobe", "copy_all", "copy_dates", "cwebp", "unlink",
            "finish", "except_called", "except_other"}

\* the intermediate path of line 122, for every file name of the model, computed once
TempTable == [n \in InputNames |-> JoinPath(output_dir, Stem(n) \o "_temp.jpg")]

TempPath(src) == TempTable[src]

IsCopy(c) == IsTool(c, "exiftool") /\ c.cmd[2] = "-TagsFromFile"

IsAllCopy(c, src, dst) == c.cmd = CopyAllCmd(src, dst)

IsDatesCopy(c, src, dst) == c.cmd = CopyDatesCmd(src, dst)

\* the metadata copies of a log onto one destination, in order
CopiesTo(log, dst) == SelectSeq(log, LAMBDA c : IsCopy(c) /\ c.cmd[Len(c.cmd)] = dst)

Exists(log, P(_)) == \E k \in 1..Len(log) : P(log[k])

\* the log holds this command with this outcome
Ran(log, call) == \E k \in 1..Len(log) : log[k] = call

\* the decoder of the job was run and did not succeed
DecodeFailed(log) == Exists(log, LAMBDA c : IsTool(c, "sips") /\ c.outcome # "ok")

\* some conversion tool of the job exited with a non-zero status
ConvNonZero(log) ==
    Exists(log, LAMBDA c : (IsTool(c, "sips") \/ IsTool(c, "cwebp")) /\ c.outcome = "nonzero")

\* decode (where applicable) and encode both exited with status 0
ConvSucceeded(j) ==
    /\ Ran(j.calls, Call(CwebpCmd(IF IsHeic(j.src) THEN TempPath(j.src) ELSE j.src, j.out), "ok"))
    /\ IsHeic(j.src) => Ran(j.calls, Call(SipsCmd(j.src, TempPath(j.src)), "ok"))

\* both copies of the metadata from the source onto the output exited with status 0
MetaSucceeded(j) ==
    /\ Ran(j.calls, Call(CopyAllCmd(j.src, j.out), "ok"))
    /\ Ran(j.calls, Call(CopyDatesCmd(j.src, j.out), "ok"))

\* a copy of the metadata from the source onto the output failed: exiftool
\* exited non-zero or could not be launched
MetaFailed(j) ==
    Exists(j.calls, LAMBDA c : IsCopy(c) /\ c.cmd[Len(c.cmd)] = j.out /\ c.outcome # "ok")

\* what job i added to each counter
DeltaSc(i) == jobs[i].sc - (IF i = 1 THEN 0 ELSE jobs[i - 1].sc)

DeltaMp(i) == jobs[i].mp - (IF i = 1 THEN 0 ELSE jobs[i - 1].mp)

\* the counters when the job in progress started
ScAtJobStart == IF jobs = <<>> THEN 0 ELSE jobs[Len(jobs)].sc

MpAtJobStart == IF jobs = <<>> THEN 0 ELSE jobs[Len(jobs)].mp

\* the discovered candidates
Candidates == {image_files[i] : i \in 1..Len(image_files)}

(***************************************************************************)
(* C1: within one run no two jobs are assigned the same output path,       *)
(* whatever the outcomes of the external tools.                            *)
(* Fails: the namer only looks at the disk, and a job that failed left     *)
(* nothing at its path.                                                    *)
(***************************************************************************)
C1_OutputPathsUnique ==
    /\ \A i, j \in JobIds : i # j => jobs[i].out # jobs[j].out
    /\ InJob => \A i \in JobIds : jobs[i].out # output_path

(***************************************************************************)
(* C2: once a .heic/.HEIC job has ended, its intermediate file             *)
(* <output_dir>/<stem>_temp.jpg is not on disk.  Stated here for the       *)
(* intermediate paths that were free before the run, which the claim       *)
(* implies.  Fails: line 134 is skipped when cwebp fails.                  *)
(***************************************************************************)
C2_NoIntermediateLeft ==
    \A i \in JobIds :
        (IsHeic(jobs[i].src) /\ TempPath(jobs[i].src) \notin pre_files)
            => ~jobs[i].tempExists

(***************************************************************************)
(* C3: once the output directory exists the run reaches the summary, and   *)
(* at the summary every discovered candidate has been attempted exactly    *)
(* once, whatever failed in the jobs before it.                            *)
(* Fails: the startup probe (line 96) and the reservation of an output     *)
(* path (line 116) are outside every try, so an OSError that               *)
(* check_exiftool does not catch, or one raised by Path.exists(), ends     *)
(* the process after the output directory was created.                     *)
(***************************************************************************)
AttemptedOnce ==
    /\ Len(jobs) = Len(image_files)
    /\ \A f \in Candidates : Cardinality({i \in JobIds : jobs[i].src = f}) = 1

C3_RunCompletes ==
    /\ (pc = "probe") ~> (pc = "done")
    /\ [](pc = "done" => AttemptedOnce)

(***************************************************************************)
(* C4: if the startup probe reported exiftool unavailable, the             *)
(* metadata-preserved counter is 0 in every state, the summary included.   *)
(***************************************************************************)
C4_NoProbeNoMetadata ==
    (probes >= 1 /\ ~has_exiftool) => metadata_preserved = 0

\* exiftool was unavailable at startup, answered the probe of a two-step job,
\* and the run ended with a successful conversion
C4_Witness ==
    /\ pc = "done"
    /\ ~has_exiftool
    /\ successful_conversions >= 1
    /\ \E i \in JobIds : Ran(jobs[i].calls, Call(ProbeCmd, "ok"))

(***************************************************************************)
(* C5: each job adds 1 to successful_conversions iff its decode (where     *)
(* applicable) and encode succeeded, and 1 to metadata_preserved iff       *)
(* moreover both metadata copies onto the output succeeded; a job with a   *)
(* non-zero conversion tool adds nothing; so at the summary the counters   *)
(* are the numbers of such jobs.                                           *)
(***************************************************************************)
C5_CountersMatchOutcomes ==
    /\ \A i \in JobIds :
          LET conv == ConvSucceeded(jobs[i])
          IN  /\ DeltaSc(i) = IF conv THEN 1 ELSE 0
              /\ DeltaMp(i) = IF conv /\ MetaSucceeded(jobs[i]) THEN 1 ELSE 0
              /\ ConvNonZero(jobs[i].calls) => DeltaSc(i) = 0 /\ DeltaMp(i) = 0
    /\ pc = "done" =>
          /\ successful_conversions = Cardinality({i \in JobIds : ConvSucceeded(jobs[i])})
          /\ metadata_preserved =
                Cardinality({i \in JobIds : ConvSucceeded(jobs[i]) /\ MetaSucceeded(jobs[i])})

(***************************************************************************)
(* C6: a job whose conversion succeeded and one of whose metadata copies   *)
(* onto the output failed counts as a successful conversion, keeps its     *)
(* output file, and adds nothing to metadata_preserved.                    *)
(***************************************************************************)
C6_MetadataFailureKeepsConversion ==
    \A i \in JobIds :
        (ConvSucceeded(jobs[i]) /\ MetaFailed(jobs[i]))
            => /\ DeltaSc(i) = 1
               /\ DeltaMp(i) = 0
               /\ jobs[i].outExists
               /\ jobs[i].out \in files

(***************************************************************************)
(* C7: when the decode of a two-step job fails, the encoder is not run     *)
(* for that job, nothing is written at the reserved output path, neither   *)
(* counter moves, and the loop goes on to the next candidate.              *)
(* Fails: the job is abandoned through the handler of line 159, whose      *)
(* print (line 160) is caught by nothing when it raises: the process ends  *)
(* and the next candidate is not processed.                                *)
(***************************************************************************)
DecodeFailureSafe ==
    /\ (InJob /\ DecodeFailed(calls)) =>
          /\ ~Exists(calls, LAMBDA c : IsTool(c, "cwebp"))
          /\ output_path \notin files
          /\ successful_conversions = ScAtJobStart
          /\ metadata_preserved = MpAtJobStart
          /\ pc = "except_other"
    /\ \A i \in JobIds : DecodeFailed(jobs[i].calls) =>
          /\ ~Exists(jobs[i].calls, LAMBDA c : IsTool(c, "cwebp"))
          /\ ~jobs[i].outExists
          /\ DeltaSc(i) = 0
          /\ DeltaMp(i) = 0
          /\ (pc = "loop" /\ i = Len(jobs)) => idx = i + 1

\* the step that follows a failed decode starts the next iteration
DecodeFailureGoesOn ==
    (InJob /\ DecodeFailed(calls)) => (pc' = "loop" /\ idx' = idx + 1)

C7_DecodeFailureAbortsJob == [](DecodeFailureSafe) /\ [][DecodeFailureGoesOn]_vars

(***************************************************************************)
(* C8: get_unique_output_path returns output_dir/stem.webp when that path  *)
(* is free, else output_dir/stem_k.webp for the least k >= 1 whose path is *)
(* free; the returned path is not on disk at the call.                     *)
(***************************************************************************)
Numbered(stem, k) == JoinPath(output_dir, stem \o "_" \o ToString(k) \o ".webp")

\* no external tool has run since line 116, so files is the disk of the call
JustReserved == pc \in {"sips", "cwebp"} /\ calls = <<>>

C8_UniquePathIsFirstFree ==
    JustReserved =>
        LET stem == Stem(img_path)
            plain == JoinPath(output_dir, stem \o ".webp")
        IN  /\ output_path \notin files
            /\ IF plain \notin files
               THEN output_path = plain
               ELSE \E k \in 1..(Cardinality(files) + 1) :
                       /\ output_path = Numbered(stem, k)
                       /\ \A m \in 1..(k - 1) : Numbered(stem, m) \in files

\* stem.webp and stem_1.webp are taken, stem_2.webp is returned
C8_Witness ==
    /\ JustReserved
    /\ JoinPath(output_dir, Stem(img_path) \o ".webp") \in files
    /\ Numbered(Stem(img_path), 1) \in files
    /\ output_path = Numbered(Stem(img_path), 2)

(***************************************************************************)
(* C9: the probe runs once, at startup, and copy_metadata is invoked in a  *)
(* job only if that probe succeeded.                                       *)
(* Fails: convert_heic_to_jpeg probes again (line 72) and copies the       *)
(* metadata on the result of that probe.                                   *)
(***************************************************************************)
C9_ProbeOnceAndCached ==
    /\ probes <= 1
    /\ Exists(calls, IsCopy) => has_exiftool

(***************************************************************************)
(* C10 as stated: a job that copies metadata runs exactly two copies, the  *)
(* all-tags copy source -> output then the date copy source -> output,     *)
(* and counts as preserved only if both succeeded.                         *)
(* Fails: a failed all-tags copy is not followed by the date copy, and a   *)
(* two-step job also copies onto its intermediate file.                    *)
(***************************************************************************)
C10_ExactlyTwoCopies ==
    \A i \in JobIds :
        LET j == jobs[i]
            copies == SelectSeq(j.calls, IsCopy)
        IN  copies # <<>> =>
              /\ Len(copies) = 2
              /\ IsAllCopy(copies[1], j.src, j.out)
              /\ IsDatesCopy(copies[2], j.src, j.out)
              /\ copies[1].outcome = "ok"
              /\ DeltaMp(i) = 1 => copies[2].outcome = "ok"

(***************************************************************************)
(* C10 amended: onto each destination a job runs at most two copies, the   *)
(* all-tags copy from the source first and the date copy from the source   *)
(* only after the all-tags copy succeeded; the destinations are the        *)
(* output and, for a two-step job, the intermediate file; the job counts   *)
(* as preserved only if both copies onto the output succeeded.             *)
(***************************************************************************)
\* copy_metadata's calls onto one destination
CopySequenceOk(copies, src, dst) ==
    \/ copies = <<>>
    \/ /\ Len(copies) = 1
       /\ \E o \in Outcomes \ {"ok"} : copies[1] = Call(CopyAllCmd(src, dst), o)
    \/ /\ Len(copies) = 2
       /\ copies[1] = Call(CopyAllCmd(src, dst), "ok")
       /\ IsDatesCopy(copies[2], src, dst)

C10_CopiesPerDestination ==
    \A i \in JustEnded :
        LET j == jobs[i]
            onOut == CopiesTo(j.calls, j.out)
            onTemp == CopiesTo(j.calls, TempPath(j.src))
        IN  /\ Len(SelectSeq(j.calls, IsCopy)) = Len(onOut) + Len(onTemp)
            /\ CopySequenceOk(onOut, j.src, j.out)
            /\ CopySequenceOk(onTemp, j.src, TempPath(j.src))
            /\ onTemp # <<>> => IsHeic(j.src)
            /\ DeltaMp(i) = 1 =>
                  onOut = <<Call(CopyAllCmd(j.src, j.out), "ok"),
                            Call(CopyDatesCmd(j.src, j.out), "ok")>>

\* a two-step job ran both copies onto the intermediate file and both onto
\* the output, and counted as preserved
C10_Witness ==
    \E i \in JobIds :
        /\ Len(CopiesTo(jobs[i].calls, TempPath(jobs[i].src))) = 2
        /\ Len(CopiesTo(jobs[i].calls, jobs[i].out)) = 2
        /\ DeltaMp(i) = 1

(***************************************************************************)
(* C11: a file of the input directory is a candidate iff its name ends     *)
(* with one of .jpg .jpeg .png .heic .HEIC .JPG .JPEG .PNG, letter case    *)
(* included (a.jpeg and a.JPEG are, a.Jpeg is not), and every candidate    *)
(* is in the candidate sequence exactly once.                              *)
(* Fails: when the input directory cannot be listed, the globs of line 107 *)
(* yield nothing instead of raising, so a file with a listed extension is  *)
(* in the directory and is not a candidate.                                *)
(***************************************************************************)
ListedExtensions == {".jpg", ".jpeg", ".png", ".heic", ".HEIC", ".JPG", ".JPEG", ".PNG"}

\* the names of InputNames that end with a listed extension, computed once
ListedNames == {n \in InputNames : \E e \in ListedExtensions : EndsWith(n, e)}

Discovered == pc \notin {"makedirs", "crashed", "probe", "discover"}

C11_DiscoveryExactList ==
    Discovered =>
        /\ \A i \in 1..Len(image_files) : image_files[i] \in input_files
        /\ \A f \in input_files :
              Cardinality({i \in 1..Len(image_files) : image_files[i] = f})
                  = IF f \in ListedNames THEN 1 ELSE 0
        /\ "a.jpeg" \in input_files => \E i \in 1..Len(image_files) : image_files[i] = "a.jpeg"
        /\ "a.JPEG" \in input_files => \E i \in 1..Len(image_files) : image_files[i] = "a.JPEG"
        /\ \A i \in 1..Len(image_files) : image_files[i] # "a.Jpeg"

(***************************************************************************)
(* C12: a candidate whose extension is .heic in any letter case takes the  *)
(* two-step path: sips runs before cwebp and cwebp reads the intermediate  *)
(* file; any other candidate takes the direct path: sips is not run and    *)
(* cwebp reads the source.  Either way cwebp runs at most once per job,    *)
(* with quality 80 and the reserved output path as destination.            *)
(***************************************************************************)
\* the names of InputNames with a .heic extension, computed once
HeicNames == {n \in InputNames : EndsWith(n, ".heic") \/ EndsWith(n, ".HEIC")}

\* line 120 on extensions in other letter cases, computed once
MixedCaseRouting ==
    /\ IsHeicPath("c.Heic")
    /\ IsHeicPath("c.hEiC")
    /\ ~IsHeicPath("c.heif")
    /\ ~IsHeicPath("heic.jpeg")

EncoderCmd(input, dst) == <<"cwebp", "-q", "80", "-metadata", "all", input, "-o", dst>>

\* the routing of one job, read from the commands it ran
RoutedAsClaimed(src, out, log) ==
    LET encodes == {k \in 1..Len(log) : IsTool(log[k], "cwebp")}
        decodes == {k \in 1..Len(log) : IsTool(log[k], "sips")}
    IN  /\ Cardinality(encodes) <= 1
        /\ IF src \in HeicNames
           THEN /\ Cardinality(decodes) <= 1
                /\ \A k \in encodes :
                      /\ log[k].cmd = EncoderCmd(TempPath(src), out)
                      /\ \E d \in decodes : d < k /\ log[d].outcome = "ok"
           ELSE /\ decodes = {}
                /\ \A k \in encodes : log[k].cmd = EncoderCmd(src, out)

C12_Routing ==
    /\ MixedCaseRouting
    /\ \A i \in JustEnded : RoutedAsClaimed(jobs[i].src, jobs[i].out, jobs[i].calls)
    /\ InJob => RoutedAsClaimed(img_path, output_path, calls)

\* a .HEIC job went through sips then cwebp and a direct job through cwebp alone
C12_Witness ==
    \E i, j \in JobIds :
        /\ jobs[i].src = "a_1.HEIC"
        /\ Exists(jobs[i].calls, LAMBDA c : IsTool(c, "sips"))
        /\ Exists(jobs[i].calls, LAMBDA c : IsTool(c, "cwebp"))
        /\ jobs[j].src = "a.jpeg"
        /\ Exists(jobs[j].calls, LAMBDA c : IsTool(c, "cwebp") /\ c.outcome = "ok")

(***************************************************************************)
(* C13: at every job boundary, the summary included,                       *)
(*   0 <= metadata_preserved <= successful_conversions                     *)
(*     <= jobs processed so far <= candidates discovered,                  *)
(* and no step of the run decreases either counter.                        *)
(* Fails: line 144 counts the metadata before the print of line 145, and   *)
(* when that print raises line 149 is skipped: the job ends with           *)
(* metadata_preserved above successful_conversions.                        *)
(***************************************************************************)
JobBoundary == pc \in {"loop", "done"}

CountersOrdered ==
    JobBoundary =>
        /\ 0 <= metadata_preserved
        /\ metadata_preserved <= successful_conversions
        /\ successful_conversions <= idx - 1
        /\ idx - 1 = Len(jobs)
        /\ idx - 1 <= Len(image_files)

CountersGrow ==
    /\ successful_conversions' >= successful_conversions
    /\ metadata_preserved' >= metadata_preserved

C13_CountersOrderedAndMonotone == [](CountersOrdered) /\ [][CountersGrow]_vars

(***************************************************************************)
(* C14: the output paths of the jobs counted as successful conversions     *)
(* are pairwise distinct, none was on disk before the run, and no later    *)
(* job of the run writes to the output of a successful job.                *)
(***************************************************************************)
Counted(i) == DeltaSc(i) = 1

\* the destinations the commands of a log write to
WrittenBy(log) ==
    {log[k].cmd[Len(log[k].cmd)] : k \in {m \in 1..Len(log) : log[m].cmd # ProbeCmd}}

C14_SuccessfulOutputsDistinct ==
    /\ \A i \in JobIds : Counted(i) =>
          /\ jobs[i].out \notin pre_files
          /\ jobs[i].out \in files
          /\ \A j \in JobIds : j > i =>
                /\ Counted(j) => jobs[j].out # jobs[i].out
                /\ jobs[i].out \notin WrittenBy(jobs[j].calls)
    /\ InJob => \A i \in JobIds : Counted(i) =>
          /\ output_path # jobs[i].out
          /\ temp_jpg # jobs[i].out
          /\ jobs[i].out \notin WrittenBy(calls)

\* two sources with one stem were both converted, to a.webp and a_1.webp
C14_Witness ==
    /\ Len(jobs) = 2
    /\ Counted(1) /\ Counted(2)
    /\ Stem(jobs[1].src) = Stem(jobs[2].src)
    /\ jobs[1].out = "webp_output/a.webp"
    /\ jobs[2].out = "webp_output/a_1.webp"

(***************************************************************************)
(* C15: the run neither deletes nor overwrites a file that was in the      *)
(* output directory before it started, reserved output paths and           *)
(* intermediate paths <stem>_temp.jpg included.                            *)
(* Fails: the intermediate path is used without an existence test, so an   *)
(* earlier <stem>_temp.jpg is overwritten by sips and removed at line 134. *)
(***************************************************************************)
\* the destinations of the commands of a log that exited with status 0
OverwrittenBy(log) ==
    {log[k].cmd[Len(log[k].cmd)] :
        k \in {m \in 1..Len(log) : log[m].cmd # ProbeCmd /\ log[m].outcome = "ok"}}

C15_EarlierFilesUntouched ==
    /\ pre_files \subseteq files
    /\ pre_files \cap OverwrittenBy(calls) = {}
    /\ \A i \in JobIds : pre_files \cap OverwrittenBy(jobs[i].calls) = {}
====
